---- MODULE Spec2Model ----
(***************************************************************************)
(* Model of Notebooks/02.Sessions.ipynb.                                   *)
(*                                                                         *)
(* Catalog workflow (specification Spec): the notebook's code cells, run   *)
(* top to bottom against the SQLite file 'sessions.db' through one         *)
(* sqlalchemy Session.  Each loop iteration is split at its two calls,     *)
(* session.add and session.commit.                                         *)
(*                                                                         *)
(* Estimation workflow (specification SpecEst): class StellarPopulation,   *)
(* its generate and estimate_mean_distance methods.                        *)
(*                                                                         *)
(* Floats are modelled by integers (exact arithmetic); the mean, which is  *)
(* a quotient, is an exact fraction in lowest terms.                       *)
(***************************************************************************)
EXTENDS Integers, Sequences, FiniteSets, TLC

\* range(100) of both insert loops, scaled down
NumRecords == 3
\* how many times the notebook is run against the same directory
MaxRuns == 2
\* largest sample count passed to generate
MaxN == 3

\* random.uniform(9.0, 11.0)
RaValues == {9, 11}
\* random.uniform(-30.0, -33.0)
DecValues == {-31}
\* random.uniform(40, 60)
DistValues == {40, 60}
\* the value compared with Distance.object_id in the filter cell (80 of 0..99
\* in the notebook): every loop counter value and one value past them
FilterValues == 0..NumRecords

\* StellarPopulation(distance)
TrueDistances == {1, 3}
\* rms_error
RmsErrors == {0, 1}
\* np.random.randn samples
Noise == {-1, 0, 1}
\* (end - start) * 1e3
Elapsed == {0, 5}

VARIABLES
    pc,           \* the next code cell (or loop step) of the catalog notebook
    run,          \* which run of the notebook this is
    dbfile,       \* the file 'sessions.db'
    removed,      \* what os.remove found and deleted in this run
    engine,       \* TRUE once create_engine has run in this kernel
    session_new,  \* instances added to the session and not yet committed
    i,            \* the loop variable
    commits,      \* session.commit() calls of this run
    obj,          \* result of session.query(Object).first()
    dist,         \* np.array([d.distance for d in dist])
    filter_value, \* the value compared with Distance.object_id
    d,            \* rows of session.query(Distance).filter(...)
    out,          \* value of the last cell, d.first().distance
    err,          \* exception raised by a cell, "none" if none
    epc,          \* position in the estimation notebook
    distance,     \* StellarPopulation.distance
    N,            \* StellarPopulation.N
    rms_error,    \* StellarPopulation.rms_error
    d_obs,        \* StellarPopulation.d_obs
    id,           \* StellarPopulation.id
    mu,           \* estimate returned by estimate_mean_distance
    time          \* wallclock time returned by estimate_mean_distance

catVars == <<pc, run, dbfile, removed, engine, session_new, i, commits, obj, dist,
             filter_value, d, out, err>>
estVars == <<epc, distance, N, rms_error, d_obs, id, mu, time>>
vars == <<pc, run, dbfile, removed, engine, session_new, i, commits, obj, dist,
          filter_value, d, out, err, epc, distance, N, rms_error, d_obs, id,
          mu, time>>

----
\* The store

\* no file on disk
NoFile == [exists |-> FALSE, tables |-> FALSE, object |-> <<>>, distance |-> <<>>]

RECURSIVE MaxId(_)
MaxId(rows) ==
    IF rows = <<>> THEN 0
    ELSE LET m == MaxId(Tail(rows)) IN IF Head(rows).id > m THEN Head(rows).id ELSE m

\* a mis-numbering store: identifiers start at 0
NextIdFromZero(rows) == IF rows = <<>> THEN 0 ELSE MaxId(rows) + 1

\* id = Column(Integer, primary_key=True): SQLite assigns the largest rowid
\* of the table plus one, 1 in an empty table
NextId(rows) == MaxId(rows) + 1

\* Object(ra=ra, dec=dec)
NewObject(ra, dec) == [kind |-> "Object", ra |-> ra, dec |-> dec]

\* the reference taken from the inserted Object's identifier instead
NewDistanceLinked(dv, k) == [kind |-> "Distance", object_id |-> k + 1, distance |-> dv]

\* the reference not following the counter
NewDistanceHalved(dv, k) == [kind |-> "Distance", object_id |-> k \div 2, distance |-> dv]

\* Distance(distance=d, object_id=i)
NewDistance(dv, k) == [kind |-> "Distance", object_id |-> k, distance |-> dv]

\* INSERT of one pending instance.  SQLite does not enforce the declared
\* ForeignKey("object.id") (the notebook's own output shows all 100 rows
\* stored, the one with object_id 0 included).
Insert(db, inst) ==
    IF inst.kind = "Object"
    THEN [db EXCEPT !.object =
            Append(db.object, [id |-> NextId(db.object), ra |-> inst.ra, dec |-> inst.dec])]
    ELSE [db EXCEPT !.distance =
            Append(db.distance, [id |-> NextId(db.distance),
                                 object_id |-> inst.object_id,
                                 distance |-> inst.distance])]

\* flush of the pending instances, in the order they were added
RECURSIVE Flush(_, _)
Flush(db, pending) ==
    IF pending = <<>> THEN db ELSE Flush(Insert(db, Head(pending)), Tail(pending))

\* a filter that also lets smaller references through
FilterAtMost(rows, k) == SelectSeq(rows, LAMBDA r : r.object_id <= k)

\* .filter(Distance.object_id == k)
Filter(rows, k) == SelectSeq(rows, LAMBDA r : r.object_id = k)

\* Query.first(): the first row, or None (the empty sequence)
First(rows) == IF rows = <<>> THEN <<>> ELSE <<Head(rows)>>

\* [d.distance for d in dist]
DistanceColumn(rows) == [k \in 1..Len(rows) |-> rows[k].distance]

----
\* The catalog notebook, cell by cell

CatInit ==
    /\ pc = "remove"
    /\ run = 1
    /\ dbfile = NoFile
    /\ removed = NoFile
    /\ engine = FALSE
    /\ session_new = <<>>
    /\ i = 0
    /\ commits = 0
    /\ obj = <<>>
    /\ dist = <<>>
    /\ filter_value = 0
    /\ d = <<>>
    /\ out = <<>>
    /\ err = "none"

EstIdle ==
    /\ epc = "idle"
    /\ distance = 0
    /\ N = 0
    /\ rms_error = 0
    /\ d_obs = <<>>
    /\ id = <<>>
    /\ mu = <<>>
    /\ time = 0

Init == CatInit /\ EstIdle

\* the stale file is kept
KeepDb ==
    /\ pc = "remove"
    /\ pc' = "create_engine"
    /\ UNCHANGED <<run, dbfile, removed, engine, session_new, i, commits, obj, dist,
                   filter_value, d, out, err>>
    /\ UNCHANGED estVars

\* try: os.remove(dbfile) / except: pass
RemoveDb ==
    /\ pc = "remove"
    /\ removed' = dbfile
    /\ dbfile' = NoFile
    /\ pc' = "create_engine"
    /\ UNCHANGED <<run, engine, session_new, i, commits, obj, dist,
                   filter_value, d, out, err>>
    /\ UNCHANGED estVars

\* engine = sq.create_engine('sqlite:///'+dbfile): no connection yet
CreateEngine ==
    /\ pc = "create_engine"
    /\ engine' = TRUE
    /\ pc' = "create_all"
    /\ UNCHANGED <<run, dbfile, removed, session_new, i, commits, obj, dist,
                   filter_value, d, out, err>>
    /\ UNCHANGED estVars

\* Base.metadata.create_all(engine): connecting creates the file, and the
\* tables are created only where they do not exist yet
CreateAll ==
    /\ pc = "create_all"
    /\ engine
    /\ dbfile' = IF dbfile.exists /\ dbfile.tables
                 THEN dbfile
                 ELSE [exists |-> TRUE, tables |-> TRUE,
                       object |-> <<>>, distance |-> <<>>]
    /\ pc' = "session"
    /\ UNCHANGED <<run, removed, engine, session_new, i, commits, obj, dist,
                   filter_value, d, out, err>>
    /\ UNCHANGED estVars

\* Base.metadata.bind = engine; DBSession = sessionmaker(bind=engine);
\* session = DBSession()
OpenSession ==
    /\ pc = "session"
    /\ session_new' = <<>>
    /\ i' = 0
    /\ pc' = "obj_add"
    /\ UNCHANGED <<run, dbfile, removed, engine, commits, obj, dist, filter_value, d, out, err>>
    /\ UNCHANGED estVars

\* first loop: new_object = Object(ra=ra, dec=dec); session.add(new_object)
ObjectAdd ==
    /\ pc = "obj_add"
    /\ i < NumRecords
    /\ \E ra \in RaValues, dec \in DecValues :
          session_new' = Append(session_new, NewObject(ra, dec))
    /\ pc' = "obj_commit"
    /\ UNCHANGED <<run, dbfile, removed, engine, i, commits, obj, dist, filter_value, d, out, err>>
    /\ UNCHANGED estVars

\* the commit left out: the instance stays pending
ObjectSkipCommit ==
    /\ pc = "obj_commit"
    /\ i' = IF i + 1 < NumRecords THEN i + 1 ELSE 0
    /\ pc' = IF i + 1 < NumRecords THEN "obj_add" ELSE "dist_add"
    /\ UNCHANGED <<run, dbfile, removed, engine, session_new, commits, obj, dist,
                   filter_value, d, out, err>>
    /\ UNCHANGED estVars

\* first loop: session.commit(), then the next i of range(100); after the
\* last one the second loop starts at i = 0
ObjectCommit ==
    /\ pc = "obj_commit"
    /\ dbfile' = Flush(dbfile, session_new)
    /\ session_new' = <<>>
    /\ commits' = commits + 1
    /\ i' = IF i + 1 < NumRecords THEN i + 1 ELSE 0
    /\ pc' = IF i + 1 < NumRecords THEN "obj_add" ELSE "dist_add"
    /\ UNCHANGED <<run, removed, engine, obj, dist, filter_value, d, out, err>>
    /\ UNCHANGED estVars

\* second loop: new_distance = Distance(distance=d, object_id=i);
\* session.add(new_distance)
DistanceAdd ==
    /\ pc = "dist_add"
    /\ i < NumRecords
    /\ \E dv \in DistValues :
          session_new' = Append(session_new, NewDistance(dv, i))
    /\ pc' = "dist_commit"
    /\ UNCHANGED <<run, dbfile, removed, engine, i, commits, obj, dist, filter_value, d, out, err>>
    /\ UNCHANGED estVars

\* second loop: session.commit(), then the next i of range(100)
DistanceCommit ==
    /\ pc = "dist_commit"
    /\ dbfile' = Flush(dbfile, session_new)
    /\ session_new' = <<>>
    /\ commits' = commits + 1
    /\ i' = i + 1
    /\ pc' = IF i + 1 < NumRecords THEN "dist_add" ELSE "query_first"
    /\ UNCHANGED <<run, removed, engine, obj, dist, filter_value, d, out, err>>
    /\ UNCHANGED estVars

\* obj = session.query(Object).first(); obj.id, obj.ra, obj.dec
QueryFirstObject ==
    /\ pc = "query_first"
    /\ obj' = First(dbfile.object)
    /\ IF dbfile.object = <<>>
       THEN pc' = "error" /\ err' = "AttributeError"
       ELSE pc' = "query_all" /\ err' = err
    /\ UNCHANGED <<run, dbfile, removed, engine, session_new, i, commits, dist,
                   filter_value, d, out>>
    /\ UNCHANGED estVars

\* dist = session.query(Distance); np.array([d.distance for d in dist])
QueryAllDistances ==
    /\ pc = "query_all"
    /\ dist' = DistanceColumn(dbfile.distance)
    /\ pc' = "query_filter"
    /\ UNCHANGED <<run, dbfile, removed, engine, session_new, i, commits, obj,
                   filter_value, d, out, err>>
    /\ UNCHANGED estVars

\* d = session.query(Distance).filter(Distance.object_id==80);
\* d.first().distance -- first() is None when no row matches, and the
\* attribute access on None raises AttributeError
QueryFilterDistance ==
    /\ pc = "query_filter"
    /\ \E k \in FilterValues :
          /\ filter_value' = k
          /\ d' = Filter(dbfile.distance, k)
          /\ IF First(Filter(dbfile.distance, k)) = <<>>
             THEN /\ out' = <<>>
                  /\ err' = "AttributeError"
                  /\ pc' = "error"
             ELSE /\ out' = <<Head(Filter(dbfile.distance, k)).distance>>
                  /\ err' = err
                  /\ pc' = "done"
    /\ UNCHANGED <<run, dbfile, removed, engine, session_new, i, commits, obj, dist>>
    /\ UNCHANGED estVars

\* the notebook is run again from its first cell in a new kernel: the file
\* stays on disk, everything in memory is gone
Restart ==
    /\ run < MaxRuns
    /\ run' = run + 1
    /\ pc' = "remove"
    /\ removed' = NoFile
    /\ engine' = FALSE
    /\ session_new' = <<>>
    /\ i' = 0
    /\ commits' = 0
    /\ obj' = <<>>
    /\ dist' = <<>>
    /\ filter_value' = 0
    /\ d' = <<>>
    /\ out' = <<>>
    /\ err' = "none"
    /\ UNCHANGED dbfile
    /\ UNCHANGED estVars

Next ==
    \/ RemoveDb
    \/ CreateEngine
    \/ CreateAll
    \/ OpenSession
    \/ ObjectAdd
    \/ ObjectCommit
    \/ DistanceAdd
    \/ DistanceCommit
    \/ QueryFirstObject
    \/ QueryAllDistances
    \/ QueryFilterDistance
    \/ Restart

Spec == Init /\ [][Next]_vars

----
\* The estimation notebook: class StellarPopulation

Digits == <<"0", "1", "2", "3", "4", "5", "6", "7", "8", "9">>

\* str(n) of a non-negative int: its decimal digits
RECURSIVE Str(_)
Str(n) == IF n < 10 THEN Digits[n + 1] ELSE Str(n \div 10) \o Digits[(n % 10) + 1]

RECURSIVE SeqSum(_)
SeqSum(s) == IF s = <<>> THEN 0 ELSE Head(s) + SeqSum(Tail(s))

Abs(x) == IF x < 0 THEN -x ELSE x

RECURSIVE Gcd(_, _)
Gcd(a, b) == IF b = 0 THEN a ELSE Gcd(b, a % b)

\* the quotient num / den (den > 0) as a fraction in lowest terms
Quotient(num, den) ==
    LET g == Gcd(Abs(num), den) IN [num |-> num \div g, den |-> den \div g]

\* a mean that divides by one too few
MeanShort(s) == Quotient(SeqSum(s), Len(s) + 1)

\* np.mean(self.d_obs): the sum of the elements over their number
Mean(s) == Quotient(SeqSum(s), Len(s))

\* cluster = StellarPopulation(3.0): self.distance = distance
EstInit ==
    /\ epc = "constructed"
    /\ distance \in TrueDistances
    /\ N = 0
    /\ rms_error = 0
    /\ d_obs = <<>>
    /\ id = <<>>
    /\ mu = <<>>
    /\ time = 0

CatIdle ==
    /\ pc = "idle"
    /\ run = 1
    /\ dbfile = NoFile
    /\ removed = NoFile
    /\ engine = FALSE
    /\ session_new = <<>>
    /\ i = 0
    /\ commits = 0
    /\ obj = <<>>
    /\ dist = <<>>
    /\ filter_value = 0
    /\ d = <<>>
    /\ out = <<>>
    /\ err = "none"

InitEst == EstInit /\ CatIdle

\* generate(self, N, rms_error)
generate ==
    /\ epc = "constructed"
    /\ \E n \in 1..MaxN, r \in RmsErrors :
         \E randn \in [1..n -> Noise] :
            /\ N' = n
            /\ rms_error' = r
            /\ d_obs' = [k \in 1..n |-> distance + (r * distance) * randn[k]]
            /\ id' = [k \in 1..n |-> Str(k - 1)]
    /\ epc' = "generated"
    /\ UNCHANGED <<distance, mu, time>>
    /\ UNCHANGED catVars

\* estimate_mean_distance(self): returns mu, time
estimate_mean_distance ==
    /\ epc = "generated"
    /\ mu' = <<Mean(d_obs)>>
    /\ time' \in Elapsed
    /\ epc' = "estimated"
    /\ UNCHANGED <<distance, N, rms_error, d_obs, id>>
    /\ UNCHANGED catVars

NextEst ==
    \/ generate
    \/ estimate_mean_distance

SpecEst == InitEst /\ [][NextEst]_vars

----
\* Properties of the catalog workflow (checked under Spec)

\* cells after the first loop
PostObjects == {"dist_add", "dist_commit", "query_first", "query_all",
                "query_filter", "done", "error"}
\* cells after the second loop
PostDistances == {"query_first", "query_all", "query_filter", "done", "error"}
\* the filter cell has run
PostFilter == {"done", "error"}

\* indices of the Distance rows whose object_id is k
RowsWith(k) == {j \in 1..Len(dbfile.distance) : dbfile.distance[j].object_id = k}

\* indices of the Distance rows whose object_id is no Object's id
Dangling ==
    {j \in 1..Len(dbfile.distance) :
        \A k \in 1..Len(dbfile.object) :
            dbfile.object[k].id # dbfile.distance[j].object_id}

\* indices of the Object rows no Distance row refers to
Unreferenced ==
    {k \in 1..Len(dbfile.object) :
        \A j \in 1..Len(dbfile.distance) :
            dbfile.distance[j].object_id # dbfile.object[k].id}

\* C1: the Object rows of the store carry the identifiers 1, 2, ... in
\* insertion order; once the first loop has finished a scan gives exactly
\* NumRecords rows, with identifiers 1..NumRecords, and the 'first Object'
\* query has returned the row with id 1.
C1_ObjectIdsContiguous ==
    /\ \A k \in 1..Len(dbfile.object) : dbfile.object[k].id = k
    /\ pc \in PostObjects => Len(dbfile.object) = NumRecords
    /\ pc \in {"query_all", "query_filter", "done", "error"} =>
          /\ Len(obj) = 1
          /\ obj[1].id = 1
          /\ obj[1] = dbfile.object[1]

C1_Witness ==
    /\ pc = "done"
    /\ Len(dbfile.object) = NumRecords
    /\ dbfile.object[NumRecords].id = NumRecords
    /\ Len(obj) = 1
    /\ obj[1].id = 1

\* C2: every stored Distance row's object_id is the id of a stored Object
\* row, in every state.
C2_ReferentialIntegrity == Dangling = {}

\* C3: once the second loop has finished, every Distance row's object_id is
\* in 0..NumRecords-1, no two rows share one, and every value of the range
\* is used.
C3_ObjectIdRangeUnique ==
    pc \in PostDistances =>
        /\ \A j \in 1..Len(dbfile.distance) :
              dbfile.distance[j].object_id \in 0..(NumRecords - 1)
        /\ \A j1, j2 \in 1..Len(dbfile.distance) :
              j1 # j2 => dbfile.distance[j1].object_id # dbfile.distance[j2].object_id
        /\ \A k \in 0..(NumRecords - 1) : RowsWith(k) # {}

C3_Witness ==
    /\ pc = "query_first"
    /\ Len(dbfile.distance) = NumRecords
    /\ dbfile.distance[1].object_id = 0
    /\ dbfile.distance[NumRecords].object_id = NumRecords - 1

\* C4: once the filter cell has run, its query holds exactly one row when
\* the filter value is one of the loop counter values and no row otherwise,
\* every row it holds has that object_id, and the same count holds of the
\* store for every value.
C4_FilterExactlyOne ==
    pc \in PostFilter =>
        /\ Len(d) = IF filter_value \in 0..(NumRecords - 1) THEN 1 ELSE 0
        /\ \A j \in 1..Len(d) : d[j].object_id = filter_value
        /\ \A k \in -1..(NumRecords + 1) :
              Cardinality(RowsWith(k)) = IF k \in 0..(NumRecords - 1) THEN 1 ELSE 0

C4_Witness ==
    /\ pc = "done"
    /\ filter_value = NumRecords - 1
    /\ Len(d) = 1
    /\ d[1].object_id = filter_value
    /\ out = <<d[1].distance>>

C7_CommitPerInsert ==
    /\ Len(session_new) <= 1
    /\ pc = "obj_add" => commits = i /\ session_new = <<>>
    /\ pc = "obj_commit" => commits = i /\ Len(session_new) = 1
    /\ pc = "dist_add" => commits = NumRecords + i /\ session_new = <<>>
    /\ pc = "dist_commit" => commits = NumRecords + i /\ Len(session_new) = 1
    /\ pc \in {"obj_add", "obj_commit", "dist_add", "dist_commit"} \cup PostDistances =>
          commits = Len(dbfile.object) + Len(dbfile.distance)
    /\ pc \in PostObjects =>
          commits >= NumRecords /\ Len(dbfile.object) = NumRecords
    /\ (dbfile.distance # <<>>
          \/ \E k \in 1..Len(session_new) : session_new[k].kind = "Distance") =>
          Len(dbfile.object) = NumRecords
    /\ pc \in PostDistances => commits = 2 * NumRecords /\ session_new = <<>>

C7_Witness ==
    /\ pc = "done"
    /\ commits = 2 * NumRecords
    /\ session_new = <<>>
    /\ Len(dbfile.object) = NumRecords
    /\ Len(dbfile.distance) = NumRecords

\* C10: after both loops the Distance row with id j has object_id j - 1;
\* exactly one Distance row, the one with object_id 0, refers to no Object
\* row; exactly one Object row, the one with id NumRecords, is referred to
\* by no Distance row.
C10_OffByOne ==
    pc \in PostDistances =>
        /\ Len(dbfile.distance) = NumRecords
        /\ \A j \in 1..NumRecords :
              dbfile.distance[j].id = j /\ dbfile.distance[j].object_id = j - 1
        /\ Cardinality(Dangling) = 1
        /\ \A j \in Dangling : dbfile.distance[j].object_id = 0
        /\ Cardinality(Unreferenced) = 1
        /\ \A k \in Unreferenced : dbfile.object[k].id = NumRecords

C10_Witness ==
    /\ pc = "query_all"
    /\ Dangling = {1}
    /\ Unreferenced = {NumRecords}
    /\ dbfile.distance[NumRecords].id = NumRecords
    /\ dbfile.distance[NumRecords].object_id = NumRecords - 1

----
\* Properties of the estimation workflow (checked under SpecEst)

\* '0', '1', ... as written out
Names == <<"0", "1", "2", "3", "4", "5", "6", "7", "8", "9", "10", "11", "12">>

C8_State ==
    /\ epc \in {"generated", "estimated"} =>
          /\ N \in 1..MaxN
          /\ Len(d_obs) = N
          /\ Len(id) = N
          /\ \A k \in 1..N :
                /\ \E z \in Noise : d_obs[k] = distance + rms_error * distance * z
                /\ id[k] = Names[k]
    /\ epc = "estimated" =>
          /\ Len(mu) = 1
          /\ mu[1].den > 0
          /\ mu[1].num * N = SeqSum(d_obs) * mu[1].den
          /\ (rms_error = 0 \/ \A k \in 1..N : d_obs[k] = distance) =>
                mu[1] = [num |-> distance, den |-> 1]

C8_EstimateStep ==
    (epc = "generated" /\ epc' = "estimated") =>
        /\ d_obs' = d_obs
        /\ id' = id
        /\ N' = N
        /\ distance' = distance
        /\ rms_error' = rms_error

====
